---- MODULE Spec2Model ----
(***************************************************************************)
(* The real-time collaboration layer of the document API: the websocket    *)
(* registry (live set, subscription index, RWMutex), the reader and writer *)
(* pumps of every connection, message dispatch and the broadcasts.         *)
(*                                                                         *)
(* Every goroutine is a thread with a program counter.  Thread c (a        *)
(* connection id) is first the HTTP handler running HandleConnection for   *)
(* connection c and then c's readPump; the writePump of c has its own      *)
(* counter wpc[c]; the threads in Workers are callers of the exported      *)
(* service and registry entry points (the document-mutation workflow).     *)
(***************************************************************************)
EXTENDS Integers, Sequences, FiniteSets, TLC

\* ------------------------------------------------------------------ bounds
MaxConns == 3        \* connections ever upgraded
MaxOps == 4          \* inbound frames plus entry-point calls ever issued
QueueCap == 2        \* capacity of Client.Send (256 in the program)
EvictConns == 2      \* connections and operations of the eviction runs
EvictOps == 5
StallConns == 1      \* ... of the runs with stalled subscribers
StallOps == 4
TeardownConns == 1   \* ... of the runs with teardown
TeardownOps == 4
LiveConns == 1
LiveOps == 6
FifoConns == 2
FifoOps == 4
UpdateConns == 3
UpdateOps == 4
CursorConns == 2
CursorOps == 4
PingConns == 2
PingOps == 3
ReplyConns == 2
ReplyOps == 4
CrashConns == 1
CrashOps == 5
UpgradeConns == 3
UpgradeOps == 2
PruneConns == 2
PruneOps == 4
AsymConns == 2
AsymOps == 3
ClosingConns == 1
ClosingOps == 5
RegistryConns == 2
RegistryOps == 3

Conns == 1..MaxConns
Workers == {MaxConns + 1}
Threads == Conns \cup Workers
Users == {"a", "b"}
Docs == {"d1", "d2"}
Versions == {1, 2}
NoUser == "nil"      \* uuid.Nil: the user id of a payload that names no user
NoConn == 0          \* the empty client id ""
NoThread == 0
NoDoc == "none"
OpIds == 1..MaxOps

VARIABLES
    clients,      \* wsRepository.clients: the ids in the live set
    subscribers,  \* wsRepository.subscribers: document -> set of client ids
    rw,           \* wsRepository.mutex: [readers, writer]
    userOf,       \* Client.UserID of every connection created so far
    send,         \* Client.Send: the buffered frames of every connection
    closed,       \* how many times close(Client.Send) ran
    connClose,    \* how many times Client.Conn.Close() ran
    pc,           \* program counter of every thread
    fr,           \* call frame (locals) of every thread
    wpc,          \* program counter of every writePump
    written,      \* frames every writePump wrote to its transport, in order
    crashed,      \* the process panicked
    nops,         \* operations issued so far; the id of the latest one
    env,          \* what the environment does in this run: how many
                  \* connections and operations, and whether broadcasts
                  \* are numbered and their history recorded
    returned,     \* ids of the broadcasts that returned
    hb            \* <<i, j>>: broadcast i returned before j was issued

vars == <<clients, subscribers, rw, userOf, send, closed, connClose, pc, fr,
          wpc, written, crashed, nops, env, returned, hb>>

\* --------------------------------------------------------------- messages
NoMsg ==
    [type |-> "none", doc |-> NoDoc, user |-> NoUser, ver |-> 0, id |-> 0,
     text |-> "none"]

UpdateMessage(d, u, v, i) ==
    [type |-> "update", doc |-> d, user |-> u, ver |-> v, id |-> i,
     text |-> "none"]

CursorMessage(d, u, i) ==
    [type |-> "cursor", doc |-> d, user |-> u, ver |-> 0, id |-> i,
     text |-> "none"]

PongMessage ==
    [type |-> "pong", doc |-> NoDoc, user |-> NoUser, ver |-> 0, id |-> 0,
     text |-> "none"]

ErrorMessage(err) ==
    [type |-> "error", doc |-> NoDoc, user |-> NoUser, ver |-> 0, id |-> 0,
     text |-> err]

\* The websocket close frame the writer sends when its queue was closed.
CloseMessage ==
    [type |-> "close", doc |-> NoDoc, user |-> NoUser, ver |-> 0, id |-> 0,
     text |-> "none"]

\* ------------------------------------------------------------ call frames
NoFrame ==
    [op |-> "none", doc |-> NoDoc, msg |-> NoMsg, excl |-> NoConn,
     snap |-> {}, todo |-> {}, victim |-> NoConn, lockop |-> "none",
     ret |-> "none", sent |-> {}, evicted |-> {}, err |-> "none",
     from |-> "none"]

Home(t) == IF t \in Conns THEN "read" ELSE "idle"

\* The number of the broadcast issued next, and what is known of the
\* broadcasts before it (history, recorded when env.track is set).
NextId == IF env.track THEN nops + 1 ELSE 0

IssuedAfter == IF env.track THEN hb \cup (returned \X {nops + 1}) ELSE hb

Returned(m) == IF env.track THEN returned \cup {m.id} ELSE returned

\* ------------------------------------------------------- the subscription map
SubscribeMapMutToggle(subs, d, c) ==
    IF d \in DOMAIN subs
    THEN [subs EXCEPT ![d] = IF c \in @ THEN @ \ {c} ELSE @ \cup {c}]
    ELSE subs @@ (d :> {c})

SubscribeMap(subs, d, c) ==
    IF d \in DOMAIN subs
    THEN [subs EXCEPT ![d] = @ \cup {c}]
    ELSE subs @@ (d :> {c})

UnregisterMapMut(subs, c) == [d \in DOMAIN subs |-> subs[d] \ {c}]

UnregisterMap(subs, c) ==
    LET keep == {d \in DOMAIN subs : subs[d] \ {c} # {}}
    IN  [d \in keep |-> subs[d] \ {c}]

UnsubscribeMapMutAll(subs, d, c) == UnregisterMap(subs, c)

UnsubscribeMapMutKeep(subs, d, c) ==
    IF d \in DOMAIN subs THEN [subs EXCEPT ![d] = @ \ {c}] ELSE subs

UnsubscribeMap(subs, d, c) ==
    IF d \notin DOMAIN subs
    THEN subs
    ELSE IF subs[d] \ {c} = {}
    THEN [e \in DOMAIN subs \ {d} |-> subs[e]]
    ELSE [subs EXCEPT ![d] = @ \ {c}]

SubscribedIds == UNION {subscribers[d] : d \in DOMAIN subscribers}

GetSubscribersMutIn(subs, live, d) ==
    IF d \in DOMAIN subs THEN subs[d] ELSE {}

GetSubscribersMutLiveIn(subs, live, d) == live

GetSubscribersIn(subs, live, d) ==
    IF d \in DOMAIN subs THEN {c \in subs[d] : c \in live} ELSE {}

\* ------------------------------------------------------------ the channel
ChanClosed(c) == closed[c] >= 1
ChanFullMut(c) == Len(send[c]) > QueueCap

\* A send finds no room when the buffer holds cap(client.Send) frames.
ChanFull(c) == Len(send[c]) >= QueueCap

\* The program after NewWSRepository and NewWSService: nothing registered.
Start ==
    /\ clients = {}
    /\ subscribers = <<>>
    /\ rw = [readers |-> 0, writer |-> NoThread]
    /\ userOf = [c \in Conns |-> NoUser]
    /\ send = [c \in Conns |-> <<>>]
    /\ closed = [c \in Conns |-> 0]
    /\ connClose = [c \in Conns |-> 0]
    /\ pc = [t \in Threads |-> IF t \in Conns THEN "none" ELSE "idle"]
    /\ fr = [t \in Threads |-> NoFrame]
    /\ wpc = [c \in Conns |-> "none"]
    /\ written = [c \in Conns |-> <<>>]
    /\ crashed = FALSE
    /\ nops = 0
    /\ returned = {}
    /\ hb = {}

Env(conns, ops, track) == [conns |-> conns, ops |-> ops, track |-> track]

Init == Start /\ env = Env(MaxConns, MaxOps, FALSE)

\* A panic in any goroutine ends the process: no goroutine takes another step.
Panic ==
    /\ crashed' = TRUE
    /\ pc' = [t \in Threads |-> "panic"]
    /\ wpc' = [c \in Conns |-> "panic"]

\* ------------------------------------------------------------ sync.RWMutex
\* RLock blocks while a writer holds the lock or has announced itself.
CanRLockMut == TRUE

CanRLock == rw.writer = NoThread

RLock(l) == [l EXCEPT !.readers = @ + 1]

RUnlock(l) == [l EXCEPT !.readers = @ - 1]

Unlock(l) == [l EXCEPT !.writer = NoThread]

\* t calls r.mutex.Lock(): it announces itself as soon as no other writer
\* has, and enters the critical section once no reader is left.
LockCall(t) ==
    /\ pc[t] = "lock"
    /\ rw.writer = NoThread
    /\ rw' = [rw EXCEPT !.writer = t]
    /\ pc' = [pc EXCEPT ![t] = IF rw.readers = 0 THEN "crit" ELSE "lockwait"]
    /\ UNCHANGED <<clients, subscribers, userOf, send, closed, connClose, fr,
                   wpc, written, crashed, nops, env, returned, hb>>

LockGrant(t) ==
    /\ pc[t] = "lockwait"
    /\ rw.writer = t
    /\ rw.readers = 0
    /\ pc' = [pc EXCEPT ![t] = "crit"]
    /\ UNCHANGED <<clients, subscribers, rw, userOf, send, closed, connClose,
                   fr, wpc, written, crashed, nops, env, returned, hb>>

\* The caller's frame on entry to a registry operation that takes the lock.
CallLocked(f, lockop, victim, ret) ==
    [f EXCEPT !.lockop = lockop, !.victim = victim, !.ret = ret]

\* The caller's frame once the registry operation returned: only the
\* broadcast loop has locals that live on.
ReturnLocked(f) == IF f.ret = "bcast" THEN f ELSE NoFrame

\* ------------------------------------------------------ registry: writers
RegisterClient(t) ==
    /\ pc[t] = "crit"
    /\ fr[t].lockop = "register"
    /\ clients' = clients \cup {fr[t].victim}
    /\ rw' = Unlock(rw)
    /\ pc' = [pc EXCEPT ![t] = fr[t].ret]
    /\ fr' = [fr EXCEPT ![t] = ReturnLocked(fr[t])]
    /\ UNCHANGED <<subscribers, userOf, send, closed, connClose, wpc,
                   written, crashed, nops, env, returned, hb>>

\* The test that guards delete(r.clients, ...) and close(client.Send).
StillRegisteredMut(v) == TRUE

StillRegistered(v) == v \in clients

\* close(client.Send) runs only for a client still in the live set; closing
\* a closed channel panics.
UnregisterClient(t) ==
    /\ pc[t] = "crit"
    /\ fr[t].lockop = "unregister"
    /\ LET v == fr[t].victim IN
        /\ subscribers' = UnregisterMap(subscribers, v)
        /\ IF StillRegistered(v)
           THEN /\ clients' = clients \ {v}
                /\ closed' = [closed EXCEPT ![v] = @ + 1]
           ELSE UNCHANGED <<clients, closed>>
        /\ fr' = [fr EXCEPT ![t] =
                     ReturnLocked([fr[t] EXCEPT !.evicted = @ \cup {v}])]
        /\ IF StillRegistered(v) /\ ChanClosed(v)
           THEN Panic
           ELSE /\ pc' = [pc EXCEPT ![t] = fr[t].ret]
                /\ UNCHANGED <<wpc, crashed>>
    /\ rw' = Unlock(rw)
    /\ UNCHANGED <<userOf, send, connClose, written, nops, env, returned, hb>>

Subscribe(t) ==
    /\ pc[t] = "crit"
    /\ fr[t].lockop = "subscribe"
    /\ subscribers' = SubscribeMap(subscribers, fr[t].doc, fr[t].victim)
    /\ rw' = Unlock(rw)
    /\ pc' = [pc EXCEPT ![t] = fr[t].ret]
    /\ fr' = [fr EXCEPT ![t] = ReturnLocked(fr[t])]
    /\ UNCHANGED <<clients, userOf, send, closed, connClose, wpc, written,
                   crashed, nops, env, returned, hb>>

Unsubscribe(t) ==
    /\ pc[t] = "crit"
    /\ fr[t].lockop = "unsubscribe"
    /\ subscribers' = UnsubscribeMap(subscribers, fr[t].doc, fr[t].victim)
    /\ rw' = Unlock(rw)
    /\ pc' = [pc EXCEPT ![t] = fr[t].ret]
    /\ fr' = [fr EXCEPT ![t] = ReturnLocked(fr[t])]
    /\ UNCHANGED <<clients, userOf, send, closed, connClose, wpc, written,
                   crashed, nops, env, returned, hb>>

\* ------------------------------------------------------ registry: readers
\* GetSubscribers up to its read of the maps, under the read lock.
GetSubscribers(t) ==
    /\ pc[t] = "rlock"
    /\ CanRLock
    /\ rw' = RLock(rw)
    /\ LET s == GetSubscribersIn(subscribers, clients, fr[t].doc) IN
        fr' = [fr EXCEPT ![t].snap = s, ![t].todo = s]
    /\ pc' = [pc EXCEPT ![t] = "runlock"]
    /\ UNCHANGED <<clients, subscribers, userOf, send, closed, connClose, wpc,
                   written, crashed, nops, env, returned, hb>>

\* The deferred RUnlock of GetSubscribers; the broadcast loop follows.
GetSubscribersReturn(t) ==
    /\ pc[t] = "runlock"
    /\ rw' = RUnlock(rw)
    /\ pc' = [pc EXCEPT ![t] = "bcast"]
    /\ UNCHANGED <<clients, subscribers, userOf, send, closed, connClose, fr,
                   wpc, written, crashed, nops, env, returned, hb>>

\* GetClients up to its read of the live set, under the read lock.
GetClients(t) ==
    /\ pc[t] = "gc1"
    /\ CanRLock
    /\ rw' = RLock(rw)
    /\ fr' = [fr EXCEPT ![t].snap = clients]
    /\ pc' = [pc EXCEPT ![t] = "gc2"]
    /\ UNCHANGED <<clients, subscribers, userOf, send, closed, connClose, wpc,
                   written, crashed, nops, env, returned, hb>>

\* handlePing's scan of the client list: the clients whose id is its own.
PingRecipients(snap, id) == {c \in snap : c = id}

\* What GetClients defers is a second RLock, not an RUnlock.
GetClientsDeferred(l) == RLock(l)

\* The deferred call of GetClients, then the caller's scan of the result:
\* handlePing looks for its own client, BroadcastDocumentUpdate for the first
\* client of the acting user (map order: any of them).
GetClientsReturn(t) ==
    /\ pc[t] = "gc2"
    /\ CanRLock
    /\ rw' = GetClientsDeferred(rw)
    /\ IF fr[t].op = "ping"
       THEN LET found == PingRecipients(fr[t].snap, t) IN
            IF found = {}
            THEN /\ pc' = [pc EXCEPT ![t] = "read"]
                 /\ fr' = [fr EXCEPT ![t] = NoFrame]
            ELSE /\ pc' = [pc EXCEPT ![t] = "ping_send"]
                 /\ \E x \in found : fr' = [fr EXCEPT ![t].todo = {x}]
       ELSE LET own == {c \in fr[t].snap : userOf[c] = fr[t].msg.user} IN
            /\ \E x \in (IF own = {} THEN {NoConn} ELSE own) :
                  fr' = [fr EXCEPT ![t].excl = x]
            /\ pc' = [pc EXCEPT ![t] = "rlock"]
    /\ UNCHANGED <<clients, subscribers, userOf, send, closed, connClose, wpc,
                   written, crashed, nops, env, returned, hb>>

\* ------------------------------------------------------------- broadcasts
\* The loop's test for skipping a subscriber.
\* The tests that make a broadcast skip subscriber cl of its snapshot.
ExcludedFromDocumentMut(f, cl) == FALSE

ExcludedFromDocumentMutUser(f, cl) == userOf[cl] = f.msg.user

ExcludedFromDocument(f, cl) == cl = f.excl

ExcludedFromCursorMut(f, cl) == FALSE

ExcludedFromCursor(f, cl) == userOf[cl] = f.msg.user

\* select { case client.Send <- message: ... default: r.UnregisterClient(client) }
\* on subscriber cl of the snapshot.  A send on a closed channel panics.
TrySend(t, cl) ==
    IF ChanClosed(cl)
    THEN /\ Panic
         /\ UNCHANGED <<send, fr>>
    ELSE IF ~ChanFull(cl)
    THEN /\ send' = [send EXCEPT ![cl] = Append(@, fr[t].msg)]
         /\ fr' = [fr EXCEPT ![t].todo = @ \ {cl},
                             ![t].sent = @ \cup {cl}]
         /\ UNCHANGED <<pc, wpc, crashed>>
    ELSE /\ fr' = [fr EXCEPT ![t] =
                     CallLocked([fr[t] EXCEPT !.todo = @ \ {cl}],
                                "unregister", cl, "bcast")]
         /\ pc' = [pc EXCEPT ![t] = "lock"]
         /\ UNCHANGED <<send, wpc, crashed>>

BroadcastStep(t, cl, excluded) ==
    /\ pc[t] = "bcast"
    /\ cl \in fr[t].todo
    /\ IF excluded
       THEN /\ fr' = [fr EXCEPT ![t].todo = @ \ {cl}]
            /\ UNCHANGED <<send, pc, wpc, crashed>>
       ELSE TrySend(t, cl)
    /\ UNCHANGED <<clients, subscribers, rw, userOf, closed, connClose,
                   written, nops, env, returned, hb>>

\* One iteration of the loop of BroadcastToDocument.
BroadcastToDocument(t, cl) ==
    /\ fr[t].op \in {"update", "direct"}
    /\ BroadcastStep(t, cl, ExcludedFromDocument(fr[t], cl))

\* One iteration of the loop of BroadcastCursorPosition.
BroadcastCursorPosition(t, cl) ==
    /\ fr[t].op = "cursor"
    /\ BroadcastStep(t, cl, ExcludedFromCursor(fr[t], cl))

\* The loop is over: the broadcast returns to its caller.
BroadcastReturn(t) ==
    /\ pc[t] = "bcast"
    /\ fr[t].todo = {}
    /\ pc' = [pc EXCEPT ![t] = Home(t)]
    /\ fr' = [fr EXCEPT ![t] = NoFrame]
    /\ returned' = Returned(fr[t].msg)
    /\ UNCHANGED <<clients, subscribers, rw, userOf, send, closed, connClose,
                   wpc, written, crashed, nops, env, hb>>

\* ---------------------------------------------------------------- service
HandleConnectionMut(c, u) ==
    /\ pc[c] = "none"
    /\ c <= env.conns
    /\ \A k \in Conns : k < c => pc[k] # "none"
    /\ userOf' = [userOf EXCEPT ![c] = u]
    /\ pc' = [pc EXCEPT ![c] = "spawn"]
    /\ UNCHANGED <<clients, subscribers, rw, send, closed, connClose, wpc, fr,
                   written, crashed, nops, env, returned, hb>>

\* HandleConnection up to its call of RegisterClient: a fresh client id, a
\* fresh open channel.  Ids are handed out in order.
HandleConnection(c, u) ==
    /\ pc[c] = "none"
    /\ c <= env.conns
    /\ \A k \in Conns : k < c => pc[k] # "none"
    /\ userOf' = [userOf EXCEPT ![c] = u]
    /\ fr' = [fr EXCEPT ![c] = CallLocked(NoFrame, "register", c, "spawn")]
    /\ pc' = [pc EXCEPT ![c] = "lock"]
    /\ UNCHANGED <<clients, subscribers, rw, send, closed, connClose, wpc,
                   written, crashed, nops, env, returned, hb>>

\* The upgrade endpoint.  What the request's token query parameter holds,
\* and the handler's answer to it before any upgrade ("none": go on).
Tokens == {"missing", "invalid", "valid"}

TokenResponseMut(tok) ==
    CASE tok = "missing" -> "bad_request"
      [] tok = "invalid" -> "none"
      [] tok = "valid"   -> "none"

TokenResponse(tok) ==
    CASE tok = "missing" -> "bad_request"
      [] tok = "invalid" -> "unauthorized"
      [] tok = "valid"   -> "none"

\* The responses that carry the error code "unauthorized" (status 400 for a
\* missing token, 401 for a rejected one).
Rejections == {"bad_request", "unauthorized"}

\* HandleWebSocket for the request that would become connection c: token
\* tok, upgrade succeeding or not, claims of user u.  A request that is
\* answered without a connection ends there.
HandleWebSocket(c, tok, up, u) ==
    /\ pc[c] = "none"
    /\ c <= env.conns
    /\ \A k \in Conns : k < c => pc[k] # "none"
    /\ IF TokenResponse(tok) # "none" \/ ~up
       THEN /\ pc' = [pc EXCEPT ![c] = IF TokenResponse(tok) # "none"
                                       THEN TokenResponse(tok)
                                       ELSE "upgrade_failed"]
            /\ UNCHANGED <<clients, subscribers, rw, userOf, send, closed,
                           connClose, fr, wpc, written, crashed, nops, env,
                           returned, hb>>
       ELSE HandleConnection(c, u)

\* go s.readPump(client); go s.writePump(client)
StartPumps(c) ==
    /\ pc[c] = "spawn"
    /\ pc' = [pc EXCEPT ![c] = "read"]
    /\ wpc' = [wpc EXCEPT ![c] = "run"]
    /\ UNCHANGED <<clients, subscribers, rw, userOf, send, closed, connClose,
                   fr, written, crashed, nops, env, returned, hb>>

\* ReadMessage returns a frame only while the transport is open.
CanRead(c) ==
    /\ pc[c] = "read"
    /\ connClose[c] = 0
    /\ nops < env.ops

\* The envelope does not decode: the reader logs and reads on.
ReadMalformed(c) ==
    /\ CanRead(c)
    /\ nops' = nops + 1
    /\ UNCHANGED <<clients, subscribers, rw, userOf, send, closed, connClose,
                   pc, fr, wpc, written, crashed, env, returned, hb>>

\* ProcessMessage returned err: the reader goes on to reply with an error frame.
DispatchError(c, err, from) ==
    /\ fr' = [fr EXCEPT ![c] = [NoFrame EXCEPT !.op = "error", !.err = err,
                                              !.from = from,
                                              !.msg = ErrorMessage(err)]]
    /\ pc' = [pc EXCEPT ![c] = "err_send"]

\* The outcome of decoding the payload and of CanUserAccess, as an error of
\* the handler ("none": access granted).
HandlerErrorMutDeny(res) ==
    CASE res = "decode" -> "decode"
      [] res = "error"  -> "internal"
      [] res = "deny"   -> "none"
      [] res = "allow"  -> "none"

HandlerErrorMutGrant(res) ==
    CASE res = "decode" -> "decode"
      [] res = "error"  -> "none"
      [] res = "deny"   -> "none"
      [] res = "allow"  -> "none"

HandlerErrorMutError(res) ==
    CASE res = "decode" -> "decode"
      [] res = "error"  -> "none"
      [] res = "deny"   -> "unauthorized"
      [] res = "allow"  -> "none"

HandlerError(res) ==
    CASE res = "decode" -> "decode"
      [] res = "error"  -> "internal"
      [] res = "deny"   -> "unauthorized"
      [] res = "allow"  -> "none"

Outcomes == {"decode", "error", "deny", "allow"}

\* A subscribe frame for document d; res is the outcome of the decoding and
\* of the access check.
HandleSubscribe(c, d, res) ==
    /\ CanRead(c)
    /\ nops' = nops + 1
    /\ IF HandlerError(res) # "none"
       THEN DispatchError(c, HandlerError(res), "subscribe")
       ELSE /\ fr' = [fr EXCEPT ![c] =
                        CallLocked([NoFrame EXCEPT !.op = "subscribe", !.doc = d],
                                   "subscribe", c, "read")]
            /\ pc' = [pc EXCEPT ![c] = "lock"]
    /\ UNCHANGED <<clients, subscribers, rw, userOf, send, closed, connClose,
                   wpc, written, crashed, env, returned, hb>>

\* A cursor frame for document d whose payload names user pu.
HandleCursor(c, d, pu, res) ==
    /\ CanRead(c)
    /\ nops' = nops + 1
    /\ IF HandlerError(res) # "none"
       THEN /\ DispatchError(c, HandlerError(res), "cursor")
            /\ hb' = hb
       ELSE /\ fr' = [fr EXCEPT ![c] =
                        [NoFrame EXCEPT !.op = "cursor", !.doc = d,
                                        !.msg = CursorMessage(d, pu, NextId)]]
            /\ pc' = [pc EXCEPT ![c] = "rlock"]
            /\ hb' = IssuedAfter
    /\ UNCHANGED <<clients, subscribers, rw, userOf, send, closed, connClose,
                   wpc, written, crashed, env, returned>>

\* A ping frame: handlePing starts with GetClients.
HandlePing(c) ==
    /\ CanRead(c)
    /\ nops' = nops + 1
    /\ fr' = [fr EXCEPT ![c] = [NoFrame EXCEPT !.op = "ping", !.msg = PongMessage]]
    /\ pc' = [pc EXCEPT ![c] = "gc1"]
    /\ UNCHANGED <<clients, subscribers, rw, userOf, send, closed, connClose,
                   wpc, written, crashed, env, returned, hb>>

\* A frame of any other type: ProcessMessage returns ErrInvalidMessageType.
InvalidMessageType(c) ==
    /\ CanRead(c)
    /\ nops' = nops + 1
    /\ DispatchError(c, "invalid", "other")
    /\ UNCHANGED <<clients, subscribers, rw, userOf, send, closed, connClose,
                   wpc, written, crashed, env, returned, hb>>

\* client.Send <- x outside a select: blocks while the channel is full,
\* panics when it is closed.
BlockingSend(c, at, dst) ==
    /\ pc[c] = at
    /\ ChanClosed(dst) \/ ~ChanFull(dst)
    /\ IF ChanClosed(dst)
       THEN /\ Panic
            /\ UNCHANGED <<send, fr>>
       ELSE /\ send' = [send EXCEPT ![dst] = Append(@, fr[c].msg)]
            /\ pc' = [pc EXCEPT ![c] = "read"]
            /\ fr' = [fr EXCEPT ![c] = NoFrame]
            /\ UNCHANGED <<wpc, crashed>>
    /\ UNCHANGED <<clients, subscribers, rw, userOf, closed, connClose,
                   written, nops, env, returned, hb>>

\* readPump: client.Send <- errorBytes
SendError(c) == BlockingSend(c, "err_send", c)

\* handlePing: client.Send <- response
SendPong(c) == \E dst \in fr[c].todo : BlockingSend(c, "ping_send", dst)

\* ReadMessage fails (peer gone, deadline, transport closed): the loop breaks
\* and the deferred teardown starts with UnregisterClient.
ReadError(c) ==
    /\ pc[c] = "read"
    /\ fr' = [fr EXCEPT ![c] = CallLocked(NoFrame, "unregister", c, "rclose")]
    /\ pc' = [pc EXCEPT ![c] = "lock"]
    /\ UNCHANGED <<clients, subscribers, rw, userOf, send, closed, connClose,
                   wpc, written, crashed, nops, env, returned, hb>>

\* The rest of readPump's deferred function: client.Conn.Close().
ReaderClose(c) ==
    /\ pc[c] = "rclose"
    /\ connClose' = [connClose EXCEPT ![c] = @ + 1]
    /\ pc' = [pc EXCEPT ![c] = "exit"]
    /\ UNCHANGED <<clients, subscribers, rw, userOf, send, closed, fr, wpc,
                   written, crashed, nops, env, returned, hb>>

\* --------------------------------------------------------------- writePump
\* The frame the writer takes next from the channel.
DequeueMut(q) == q[Len(q)]

Dequeue(q) == Head(q)

WriterExit(c) ==
    /\ wpc' = [wpc EXCEPT ![c] = "exit"]
    /\ connClose' = [connClose EXCEPT ![c] = @ + 1]

\* case message, ok := <-client.Send with a frame: it is written, or the
\* write fails and the pump exits.  No write succeeds on a closed transport.
WriterWrite(c, ok) ==
    /\ wpc[c] = "run"
    /\ send[c] # <<>>
    /\ ok => connClose[c] = 0
    /\ send' = [send EXCEPT ![c] = Tail(@)]
    /\ IF ok
       THEN /\ written' = [written EXCEPT ![c] = Append(@, Dequeue(send[c]))]
            /\ UNCHANGED <<wpc, connClose>>
       ELSE /\ WriterExit(c)
            /\ written' = written
    /\ UNCHANGED <<clients, subscribers, rw, userOf, closed, pc, fr, crashed,
                   nops, env, returned, hb>>

ChanDrainedMut(c) == TRUE

\* A receive from a closed channel yields ok = false only once the buffered
\* frames were all received.
ChanDrained(c) == send[c] = <<>>

\* The channel is closed and drained: close frame, exit.
WriterClosed(c) ==
    /\ wpc[c] = "run"
    /\ ChanDrained(c)
    /\ ChanClosed(c)
    /\ WriterExit(c)
    /\ written' = [written EXCEPT ![c] = Append(@, CloseMessage)]
    /\ UNCHANGED <<clients, subscribers, rw, userOf, send, closed, pc, fr,
                   crashed, nops, env, returned, hb>>

\* case <-ticker.C with a failing probe write.
WriterPingFail(c) ==
    /\ wpc[c] = "run"
    /\ WriterExit(c)
    /\ UNCHANGED <<clients, subscribers, rw, userOf, send, closed, pc, fr,
                   written, crashed, nops, env, returned, hb>>

\* ------------------------------------------------------------ entry points
\* BroadcastDocumentUpdate up to its call of GetClients.
BroadcastDocumentUpdate(w, d, u, v) ==
    /\ pc[w] = "idle"
    /\ nops < env.ops
    /\ nops' = nops + 1
    /\ fr' = [fr EXCEPT ![w] =
                [NoFrame EXCEPT !.op = "update", !.doc = d,
                                !.msg = UpdateMessage(d, u, v, NextId)]]
    /\ pc' = [pc EXCEPT ![w] = "gc1"]
    /\ hb' = IssuedAfter
    /\ UNCHANGED <<clients, subscribers, rw, userOf, send, closed, connClose,
                   wpc, written, crashed, env, returned>>

\* A caller of the registry's BroadcastToDocument with its own exclusion x.
CallBroadcastToDocument(w, d, x) ==
    /\ pc[w] = "idle"
    /\ nops < env.ops
    /\ nops' = nops + 1
    /\ fr' = [fr EXCEPT ![w] =
                [NoFrame EXCEPT !.op = "direct", !.doc = d, !.excl = x,
                                !.msg = UpdateMessage(d, NoUser, 0, NextId)]]
    /\ pc' = [pc EXCEPT ![w] = "rlock"]
    /\ hb' = IssuedAfter
    /\ UNCHANGED <<clients, subscribers, rw, userOf, send, closed, connClose,
                   wpc, written, crashed, env, returned>>

\* A caller of the registry's Unsubscribe (no handler of the service calls
\* it): connection c leaves document d.
CallUnsubscribe(w, d, c) ==
    /\ pc[w] = "idle"
    /\ nops < env.ops
    /\ nops' = nops + 1
    /\ fr' = [fr EXCEPT ![w] =
                CallLocked([NoFrame EXCEPT !.op = "unsubscribe", !.doc = d],
                           "unsubscribe", c, "idle")]
    /\ pc' = [pc EXCEPT ![w] = "lock"]
    /\ UNCHANGED <<clients, subscribers, rw, userOf, send, closed, connClose,
                   wpc, written, crashed, env, returned, hb>>

\* ------------------------------------------------------------------- Next
\* The steps every goroutine may take inside the registry.
LockStep ==
    \/ \E t \in Threads : LockCall(t)
    \/ \E t \in Threads : LockGrant(t)

SetupStep ==
    \/ \E c \in Conns, u \in Users : HandleConnection(c, u)
    \/ \E t \in Threads : RegisterClient(t)
    \/ \E c \in Conns : StartPumps(c)

SubscribeStep ==
    \/ \E c \in Conns, d \in Docs, res \in Outcomes : HandleSubscribe(c, d, res)
    \/ \E t \in Threads : Subscribe(t)

ErrorStep ==
    \/ \E c \in Conns : InvalidMessageType(c)
    \/ \E c \in Conns : SendError(c)

FanoutStep ==
    \/ \E t \in Threads : GetSubscribers(t)
    \/ \E t \in Threads : GetSubscribersReturn(t)
    \/ \E t \in Threads : BroadcastReturn(t)
    \/ \E t \in Threads : UnregisterClient(t)

GetClientsStep ==
    \/ \E t \in Threads : GetClients(t)
    \/ \E t \in Threads : GetClientsReturn(t)

DocumentStep ==
    \E t \in Threads, cl \in Conns : BroadcastToDocument(t, cl)

DirectStep ==
    \E w \in Workers, d \in Docs, x \in Conns \cup {NoConn} :
        CallBroadcastToDocument(w, d, x)

UpdateStep ==
    \E w \in Workers, d \in Docs, u \in Users, v \in Versions :
        BroadcastDocumentUpdate(w, d, u, v)

CursorStep ==
    \/ \E c \in Conns, d \in Docs, pu \in Users \cup {NoUser}, res \in Outcomes :
          HandleCursor(c, d, pu, res)
    \/ \E t \in Threads, cl \in Conns : BroadcastCursorPosition(t, cl)

UnsubscribeStep ==
    \/ \E w \in Workers, d \in Docs, c \in Conns : CallUnsubscribe(w, d, c)
    \/ \E t \in Threads : Unsubscribe(t)

PingStep ==
    \/ \E c \in Conns : HandlePing(c)
    \/ \E c \in Conns : SendPong(c)

WriteStep == \E c \in Conns : WriterWrite(c, TRUE)

TeardownStep ==
    \/ \E c \in Conns : ReadError(c)
    \/ \E c \in Conns : ReaderClose(c)
    \/ \E c \in Conns : WriterClosed(c)

FaultStep ==
    \/ \E c \in Conns : WriterWrite(c, FALSE)
    \/ \E c \in Conns : WriterPingFail(c)
    \/ \E c \in Conns : ReadMalformed(c)

Next ==
    \/ LockStep
    \/ SetupStep
    \/ SubscribeStep
    \/ ErrorStep
    \/ FanoutStep
    \/ GetClientsStep
    \/ DocumentStep
    \/ DirectStep
    \/ UpdateStep
    \/ CursorStep
    \/ UnsubscribeStep
    \/ PingStep
    \/ WriteStep
    \/ TeardownStep
    \/ FaultStep

Spec == Init /\ [][Next]_vars

\* The registry under broadcasts of callers that hold a reference to it,
\* with subscribers whose queues fill up with error replies.
NextEvict ==
    \/ LockStep
    \/ SetupStep
    \/ \E c \in Conns, d \in Docs, res \in {"allow", "deny"} :
          HandleSubscribe(c, d, res)
    \/ \E t \in Threads : Subscribe(t)
    \/ \E c \in Conns : SendError(c)
    \/ FanoutStep
    \/ DocumentStep
    \/ DirectStep

InitEvict == Start /\ env = Env(EvictConns, EvictOps, FALSE)

SpecEvict == InitEvict /\ [][NextEvict]_vars

\* What the Go scheduler and the transport guarantee: a goroutine that can
\* take a step of the program takes it (inbound frames, peer failures and
\* entry-point calls are up to the environment and promised nothing); a
\* write ends, well or badly, within its deadline; ReadMessage fails once
\* the transport is closed.
ThreadStep(t) ==
    \/ LockCall(t)
    \/ LockGrant(t)
    \/ RegisterClient(t)
    \/ UnregisterClient(t)
    \/ Subscribe(t)
    \/ Unsubscribe(t)
    \/ GetSubscribers(t)
    \/ GetSubscribersReturn(t)
    \/ GetClients(t)
    \/ GetClientsReturn(t)
    \/ \E cl \in Conns : BroadcastToDocument(t, cl)
    \/ \E cl \in Conns : BroadcastCursorPosition(t, cl)
    \/ BroadcastReturn(t)

ReaderStep(c) ==
    \/ StartPumps(c)
    \/ SendError(c)
    \/ SendPong(c)
    \/ ReaderClose(c)
    \/ (connClose[c] > 0 /\ ReadError(c))

WriterStep(c) ==
    \/ \E ok \in BOOLEAN : WriterWrite(c, ok)
    \/ WriterClosed(c)

Fairness ==
    /\ \A t \in Threads : WF_vars(ThreadStep(t))
    /\ \A c \in Conns : WF_vars(ReaderStep(c))
    /\ \A c \in Conns : WF_vars(WriterStep(c))

\* The document-mutation workflow broadcasting updates to subscribers whose
\* queues fill up with error replies and are drained by their writers.
NextStall ==
    \/ LockStep
    \/ SetupStep
    \/ \E c \in Conns, d \in Docs, res \in {"allow", "deny"} :
          HandleSubscribe(c, d, res)
    \/ \E t \in Threads : Subscribe(t)
    \/ \E c \in Conns : SendError(c)
    \/ FanoutStep
    \/ GetClientsStep
    \/ DocumentStep
    \/ UpdateStep
    \/ DirectStep
    \/ WriteStep

InitStall == Start /\ env = Env(StallConns, StallOps, FALSE)

FairSpecStall == InitStall /\ [][NextStall]_vars /\ Fairness

\* Connections torn down by their own pumps while a caller broadcasts.
NextTeardown ==
    \/ LockStep
    \/ SetupStep
    \/ \E c \in Conns, d \in Docs, res \in {"allow", "deny"} :
          HandleSubscribe(c, d, res)
    \/ \E t \in Threads : Subscribe(t)
    \/ \E c \in Conns : SendError(c)
    \/ FanoutStep
    \/ DocumentStep
    \/ DirectStep
    \/ \E c \in Conns, ok \in BOOLEAN : WriterWrite(c, ok)
    \/ \E c \in Conns : WriterPingFail(c)
    \/ TeardownStep

InitTeardown == Start /\ env = Env(TeardownConns, TeardownOps, FALSE)

FairSpecTeardown == InitTeardown /\ [][NextTeardown]_vars /\ Fairness

\* A subscriber evicted by a broadcast while its own subscribe is pending,
\* and the broadcasts that follow.
InitLive == Start /\ env = Env(LiveConns, LiveOps, FALSE)

SpecLive == InitLive /\ [][NextEvict]_vars

\* Numbered broadcasts of a caller and cursor relays of the connections,
\* written out by the writers.
NextFifo ==
    \/ LockStep
    \/ SetupStep
    \/ \E c \in Conns, d \in Docs : HandleSubscribe(c, d, "allow")
    \/ \E t \in Threads : Subscribe(t)
    \/ FanoutStep
    \/ DocumentStep
    \/ \E w \in Workers, d \in Docs : CallBroadcastToDocument(w, d, NoConn)
    \/ \E c \in Conns, d \in Docs : HandleCursor(c, d, userOf[c], "allow")
    \/ \E t \in Threads, cl \in Conns : BroadcastCursorPosition(t, cl)
    \/ WriteStep

InitFifo == Start /\ env = Env(FifoConns, FifoOps, TRUE)

SpecFifo == InitFifo /\ [][NextFifo]_vars

\* The document-mutation workflow announcing updates to the subscribers.
NextUpdate ==
    \/ \E t \in Threads : LockCall(t)
    \/ SetupStep
    \/ \E c \in Conns, d \in Docs : HandleSubscribe(c, d, "allow")
    \/ \E t \in Threads : Subscribe(t)
    \/ GetClientsStep
    \/ \E w \in Workers, u \in Users, v \in Versions :
          BroadcastDocumentUpdate(w, "d1", u, v)
    \/ \E t \in Threads : GetSubscribers(t)
    \/ \E t \in Threads : GetSubscribersReturn(t)
    \/ DocumentStep
    \/ \E t \in Threads : BroadcastReturn(t)

InitUpdate == Start /\ env = Env(UpdateConns, UpdateOps, FALSE)

SpecUpdate == InitUpdate /\ [][NextUpdate]_vars

\* Connections relaying cursor frames to the subscribers of a document.
NextCursor ==
    \/ LockStep
    \/ SetupStep
    \/ \E c \in Conns, d \in Docs, res \in {"allow", "deny"} :
          HandleSubscribe(c, d, res)
    \/ \E t \in Threads : Subscribe(t)
    \/ \E c \in Conns : SendError(c)
    \/ FanoutStep
    \/ \E c \in Conns, d \in Docs, pu \in Users, res \in {"allow", "deny"} :
          HandleCursor(c, d, pu, res)
    \/ \E t \in Threads, cl \in Conns : BroadcastCursorPosition(t, cl)

InitCursor == Start /\ env = Env(CursorConns, CursorOps, FALSE)

SpecCursor == InitCursor /\ [][NextCursor]_vars

\* Connections that subscribe and send ping frames, drained by their writers.
NextPing ==
    \/ \E t \in Threads : LockCall(t)
    \/ SetupStep
    \/ \E c \in Conns, d \in Docs : HandleSubscribe(c, d, "allow")
    \/ \E t \in Threads : Subscribe(t)
    \/ PingStep
    \/ GetClientsStep
    \/ WriteStep

InitPing == Start /\ env = Env(PingConns, PingOps, FALSE)

SpecPing == InitPing /\ [][NextPing]_vars

FairSpecPing == InitPing /\ [][NextPing]_vars /\ Fairness

\* Readers dispatching frames of every kind with every outcome of the
\* decoding and of the access check, while a caller broadcasts.
NextReply ==
    \/ LockStep
    \/ SetupStep
    \/ SubscribeStep
    \/ ErrorStep
    \/ \E c \in Conns : ReadMalformed(c)
    \/ \E c \in Conns, d \in Docs, res \in Outcomes :
          HandleCursor(c, d, userOf[c], res)
    \/ \E t \in Threads, cl \in Conns : BroadcastCursorPosition(t, cl)
    \/ FanoutStep
    \/ DocumentStep
    \/ \E w \in Workers, d \in Docs : CallBroadcastToDocument(w, d, NoConn)

InitReply == Start /\ env = Env(ReplyConns, ReplyOps, FALSE)

SpecReply == InitReply /\ [][NextReply]_vars

\* The same with one connection and frames enough to fill its queue, have
\* it evicted and have it reply once more.
InitCrash == Start /\ env = Env(CrashConns, CrashOps, FALSE)

SpecCrash == InitCrash /\ [][NextReply]_vars

\* Requests at the upgrade endpoint, and the connections they become.
NextUpgrade ==
    \/ \E c \in Conns, tok \in Tokens, up \in BOOLEAN, u \in Users :
          HandleWebSocket(c, tok, up, u)
    \/ \E t \in Threads : LockCall(t)
    \/ \E t \in Threads : RegisterClient(t)
    \/ \E c \in Conns : StartPumps(c)
    \/ \E c \in Conns, d \in Docs : HandleSubscribe(c, d, "allow")
    \/ \E t \in Threads : Subscribe(t)

InitUpgrade == Start /\ env = Env(UpgradeConns, UpgradeOps, FALSE)

SpecUpgrade == InitUpgrade /\ [][NextUpgrade]_vars

\* Subscriptions that come and go: subscribes, unsubscribes, teardowns,
\* and broadcasts that leave their frames in the subscribers' queues.
NextPrune ==
    \/ LockStep
    \/ SetupStep
    \/ \E c \in Conns, d \in Docs : HandleSubscribe(c, d, "allow")
    \/ \E t \in Threads : Subscribe(t)
    \/ UnsubscribeStep
    \/ FanoutStep
    \/ DocumentStep
    \/ \E w \in Workers, d \in Docs : CallBroadcastToDocument(w, d, NoConn)
    \/ \E c \in Conns : ReadError(c)
    \/ \E c \in Conns : ReaderClose(c)

InitPrune == Start /\ env = Env(PruneConns, PruneOps, FALSE)

SpecPrune == InitPrune /\ [][NextPrune]_vars

\* Users with several connections subscribed to a document, its updates
\* announced by the workflow and cursor frames relayed by the connections.
NextAsym ==
    \/ LockStep
    \/ SetupStep
    \/ \E c \in Conns : HandleSubscribe(c, "d1", "allow")
    \/ \E t \in Threads : Subscribe(t)
    \/ GetClientsStep
    \/ \E w \in Workers, u \in Users, v \in Versions :
          BroadcastDocumentUpdate(w, "d1", u, v)
    \/ \E t \in Threads : GetSubscribers(t)
    \/ \E t \in Threads : GetSubscribersReturn(t)
    \/ DocumentStep
    \/ \E t \in Threads : BroadcastReturn(t)
    \/ \E c \in Conns, pu \in Users : HandleCursor(c, "d1", pu, "allow")
    \/ \E t \in Threads, cl \in Conns : BroadcastCursorPosition(t, cl)

InitAsym == Start /\ env = Env(AsymConns, AsymOps, FALSE)

SpecAsym == InitAsym /\ [][NextAsym]_vars

\* A connection evicted by a broadcast that goes on reading, ping frames
\* included, until its transport is closed.
NextClosing ==
    \/ LockStep
    \/ SetupStep
    \/ \E c \in Conns, res \in {"allow", "deny"} : HandleSubscribe(c, "d1", res)
    \/ \E t \in Threads : Subscribe(t)
    \/ \E c \in Conns : SendError(c)
    \/ FanoutStep
    \/ DocumentStep
    \/ \E w \in Workers : CallBroadcastToDocument(w, "d1", NoConn)
    \/ PingStep
    \/ GetClientsStep
    \/ \E c \in Conns, ok \in BOOLEAN : WriterWrite(c, ok)
    \/ TeardownStep

InitClosing == Start /\ env = Env(ClosingConns, ClosingOps, FALSE)

FairSpecClosing == InitClosing /\ [][NextClosing]_vars /\ Fairness

\* Every operation of the registry at work: connections that subscribe with
\* and without access, relay cursors, send pings and leave, and callers that
\* broadcast and unsubscribe.
NextRegistry ==
    \/ LockStep
    \/ SetupStep
    \/ \E c \in Conns, d \in Docs, res \in {"allow", "deny", "error"} :
          HandleSubscribe(c, d, res)
    \/ \E t \in Threads : Subscribe(t)
    \/ \E c \in Conns : SendError(c)
    \/ UnsubscribeStep
    \/ FanoutStep
    \/ DocumentStep
    \/ \E w \in Workers, d \in Docs : CallBroadcastToDocument(w, d, NoConn)
    \/ \E c \in Conns, d \in Docs : HandleCursor(c, d, userOf[c], "allow")
    \/ \E t \in Threads, cl \in Conns : BroadcastCursorPosition(t, cl)
    \/ PingStep
    \/ GetClientsStep
    \/ \E c \in Conns : ReadError(c)
    \/ \E c \in Conns : ReaderClose(c)

InitRegistry == Start /\ env = Env(RegistryConns, RegistryOps, FALSE)

SpecRegistry == InitRegistry /\ [][NextRegistry]_vars

\* ------------------------------------------------------------------ claims
\* What a run of BroadcastToDocument by thread t leaves at its return: every
\* subscriber it found full is out of the live set and of every subscriber
\* set, and every other subscriber of the snapshot, the excluded one apart,
\* was sent the message.
EvictionAtReturn(t) ==
    /\ fr[t].evicted \cap clients = {}
    /\ fr[t].evicted \cap SubscribedIds = {}
    /\ fr[t].snap \ {fr[t].excl} = fr[t].sent \cup fr[t].evicted
    /\ fr[t].sent \cap fr[t].evicted = {}

\* An iteration of the loop on a subscriber with room appends the message
\* once to that subscriber's queue and touches no other queue.
DeliveredOnce(t, cl) ==
    send' = [send EXCEPT ![cl] = Append(@, fr[t].msg)]

\* C1: slow-consumer eviction with isolation.  When BroadcastToDocument
\* returns, every subscriber whose queue was at capacity at its enqueue
\* attempt is absent from the live set and from every document's subscriber
\* set, and every other subscriber of the document but the excluded one got
\* the message appended exactly once.
C1_EvictionWithIsolation ==
    [][\A t \in Threads :
          /\ (BroadcastReturn(t) /\ fr[t].op \in {"update", "direct"})
                => EvictionAtReturn(t)
          /\ \A cl \in Conns :
                (/\ BroadcastToDocument(t, cl)
                 /\ cl # fr[t].excl
                 /\ ~ChanFull(cl)
                 /\ ~ChanClosed(cl)) => DeliveredOnce(t, cl)]_vars

\* C5: every id in a subscriber set is the id of a live connection.
C5_IndexOnlyLive == SubscribedIds \subseteq clients

\* A thread inside one of the three broadcasts.
Broadcasting(t) ==
    /\ fr[t].op \in {"update", "direct", "cursor"}
    /\ pc[t] \notin {Home(t), "panic"}

\* C2: a broadcaster is never blocked for ever: every call of
\* BroadcastDocumentUpdate, BroadcastToDocument or BroadcastCursorPosition
\* eventually returns.
C2_BroadcastReturns ==
    \A t \in Threads : [](Broadcasting(t) => <>(~Broadcasting(t)))

\* RegisterClient ran for connection c.
WasRegistered(c) == userOf[c] # NoUser /\ fr[c].lockop # "register"

\* The channel of a connection is closed once it left the live set, and
\* only then; never twice.
ClosedOnce ==
    \A c \in Conns :
        closed[c] = IF WasRegistered(c) /\ c \notin clients THEN 1 ELSE 0

\* C3: UnregisterClient is idempotent and closes once.  Whenever a call of
\* UnregisterClient(C) returns, the first or a redundant one, from the reader
\* pump's teardown or from a broadcaster, C is absent from the live set and
\* from every subscriber set and its queue has been closed exactly once.
C3_UnregisterOnce ==
    [][/\ \A t \in Threads :
            UnregisterClient(t) =>
                /\ fr[t].victim \notin clients'
                /\ fr[t].victim \notin SubscribedIds'
                /\ closed'[fr[t].victim] = 1
       /\ ClosedOnce']_vars

\* Both the teardown of connection c and a broadcaster unregistered c.
C3_Witness ==
    \E w \in Workers, c \in Conns :
        /\ c \in fr[w].evicted
        /\ pc[c] \in {"rclose", "exit"}
        /\ closed[c] = 1

\* C4: nothing is fatal to the process: no operation sends on a queue that
\* was closed.
C4_NoSendOnClosed == crashed = FALSE

\* Connection c is being torn down: one of its pumps left its loop.
PumpExited(c) ==
    \/ wpc[c] = "exit"
    \/ pc[c] \in {"rclose", "exit"}
    \/ (pc[c] \in {"lock", "lockwait", "crit"} /\ fr[c].ret = "rclose")

TornDown(c) ==
    /\ c \notin clients
    /\ connClose[c] >= 1
    /\ wpc[c] = "exit"
    /\ pc[c] = "exit"

\* C7: teardown completes.  Once a pump of a connection exits, eventually
\* the connection is unregistered, its transport closed and both pumps gone.
C7_TeardownCompletes ==
    \A c \in Conns : [](PumpExited(c) => <>(TornDown(c) \/ crashed))

\* C6: GetSubscribers returns only live connections.  For every document,
\* the result of GetSubscribers holds only connections that are in the live
\* set when the snapshot is taken: the subscribed ids that resolve to a live
\* connection, every other subscribed id being skipped without error.
C6_SubscribersOnlyLive ==
    \A t \in Threads :
        pc[t] = "runlock" =>
            /\ fr[t].snap \subseteq clients
            /\ fr[t].snap = {c \in Conns : /\ fr[t].doc \in DOMAIN subscribers
                                           /\ c \in subscribers[fr[t].doc]
                                           /\ c \in clients}

\* A snapshot was taken of a document that has a subscribed id with no live
\* connection.
C6_Witness ==
    \E t \in Threads :
        /\ pc[t] = "runlock"
        /\ fr[t].doc \in DOMAIN subscribers
        /\ subscribers[fr[t].doc] \ clients # {}

\* What the writer of connection c wrote, followed by what it will take
\* from the queue, in that order.
Seen(c) == written[c] \o send[c]

\* C8: per-destination FIFO.  When broadcast b1 returned before broadcast b2
\* was issued and both were enqueued to subscriber S, the writer of S takes
\* and writes the message of b1 before that of b2, and each of them once.
C8_PerDestinationFifo ==
    \A c \in Conns :
        \A i, j \in 1..Len(Seen(c)) :
            (i < j /\ Seen(c)[i].id > 0 /\ Seen(c)[j].id > 0) =>
                /\ Seen(c)[i].id # Seen(c)[j].id
                /\ <<Seen(c)[j].id, Seen(c)[i].id>> \notin hb

\* The writer of a subscriber wrote the messages of two broadcasts, the
\* second issued after the first returned.
C8_Witness ==
    \E c \in Conns :
        \E i, j \in 1..Len(written[c]) :
            /\ i < j
            /\ <<written[c][i].id, written[c][j].id>> \in hb

\* BroadcastDocumentUpdate appends its update frame once.
UpdateDelivered(w, cl) ==
    /\ DeliveredOnce(w, cl)
    /\ fr[w].msg.type = "update"
    /\ fr[w].msg.doc = fr[w].doc

\* C9 as stated: update fan-out with self-exclusion.  When connections A of
\* user a and B of another user are both subscribed to D and
\* BroadcastDocumentUpdate(D, a, ...) is called, at its return B was sent
\* the update frame, A was not, and nobody outside the subscribers of D was.
C9_UpdateFanout ==
    [][\A w \in Workers :
         (BroadcastReturn(w) /\ fr[w].op = "update") =>
             \A A, B \in fr[w].snap :
                 (userOf[A] = fr[w].msg.user /\ userOf[B] # fr[w].msg.user) =>
                     /\ B \in fr[w].sent
                     /\ A \notin fr[w].sent
                     /\ fr[w].sent \subseteq fr[w].snap]_vars

\* C9 amended: the same when A is the only live connection of user a; every
\* subscriber with room that is not the excluded connection gets the frame,
\* once, with the version and the document of the call.
C9_UpdateFanoutSingle ==
    [][\A w \in Workers :
         /\ (BroadcastReturn(w) /\ fr[w].op = "update") =>
               \A A, B \in fr[w].snap :
                   ( /\ userOf[A] = fr[w].msg.user
                     /\ userOf[B] # fr[w].msg.user
                     /\ \A c \in clients : userOf[c] = userOf[A] => c = A ) =>
                       /\ B \in fr[w].sent
                       /\ A \notin fr[w].sent
                       /\ fr[w].sent \subseteq fr[w].snap
         /\ \A cl \in Conns :
               ( /\ BroadcastToDocument(w, cl)
                 /\ fr[w].op = "update"
                 /\ cl # fr[w].excl
                 /\ ~ChanFull(cl)
                 /\ ~ChanClosed(cl) ) => UpdateDelivered(w, cl)]_vars

\* An update broadcast is about to return: A, the only connection of its
\* user, was skipped and B, of another user, was sent the frame.
C9_Witness ==
    \E w \in Workers :
        /\ pc[w] = "bcast"
        /\ fr[w].op = "update"
        /\ fr[w].todo = {}
        /\ \E A, B \in fr[w].snap :
              /\ userOf[A] = fr[w].msg.user
              /\ userOf[B] # fr[w].msg.user
              /\ \A c \in clients : userOf[c] = userOf[A] => c = A
              /\ B \in fr[w].sent
              /\ send[B] # <<>>
              /\ send[B][Len(send[B])] = fr[w].msg

\* C10: the cursor relay excludes the originating user.  When connection A
\* relays a cursor frame for D, at the return of the relay no connection of
\* A's user was sent the frame, A included, whatever user id the payload
\* carries, and every subscriber of another user was sent it unless its
\* queue was full.
C10_CursorExcludesOrigin ==
    [][\A c \in Conns :
         (BroadcastReturn(c) /\ fr[c].op = "cursor") =>
             /\ \A x \in fr[c].sent : userOf[x] # userOf[c]
             /\ \A x \in fr[c].snap :
                   userOf[x] # userOf[c] => x \in fr[c].sent \cup fr[c].evicted]_vars

\* Connection c is inside handlePing.
Pinging(c) == fr[c].op = "ping" /\ pc[c] \in {"gc1", "gc2", "ping_send"}

\* C11: a ping frame dispatched for registered connection A results in
\* exactly one pong frame appended to A's queue: handlePing, once called
\* for a connection of the live set, gets to its send and returns.
C11_PingAnswered ==
    \A c \in Conns :
        []((Pinging(c) /\ c \in clients) => <>(~Pinging(c) \/ crashed))

\* C12: a subscribe message for document D from connection C whose user
\* fails the read access check makes ProcessMessage return the unauthorized
\* error and leaves the subscription index unchanged: the reader goes on to
\* its error reply, no call of Subscribe follows, and the reply leaves the
\* index alone.
C12_DeniedSubscribe ==
    [][\A c \in Conns :
         /\ \A d \in Docs :
               HandleSubscribe(c, d, "deny") =>
                   /\ subscribers' = subscribers
                   /\ pc'[c] = "err_send"
                   /\ fr'[c].err = "unauthorized"
                   /\ fr'[c].lockop = "none"
         /\ (SendError(c) /\ fr[c].from = "subscribe") =>
               subscribers' = subscribers]_vars

\* A denied subscribe is being answered while the index holds subscribers,
\* the denied connection not among them.
C12_Witness ==
    \E c \in Conns :
        /\ pc[c] = "err_send"
        /\ fr[c].from = "subscribe"
        /\ fr[c].err = "unauthorized"
        /\ SubscribedIds # {}
        /\ c \notin SubscribedIds

\* The reply to a rejected frame: one error frame on the sender's queue, the
\* live set and the index as they were.
ErrorReplied(c) ==
    /\ send' = [send EXCEPT ![c] = Append(@, ErrorMessage(fr[c].err))]
    /\ clients' = clients
    /\ subscribers' = subscribers
    /\ c \in clients
    /\ crashed' = FALSE

\* C13: a cursor message from a connection whose user fails the read access
\* check is not relayed: no queue receives a cursor frame, the sender
\* receives one error frame and stays in the live set with its
\* subscriptions unchanged.
C13_DeniedCursor ==
    [][\A c \in Conns :
         /\ \A d \in Docs, pu \in Users \cup {NoUser} :
               HandleCursor(c, d, pu, "deny") =>
                   /\ send' = send
                   /\ pc'[c] = "err_send"
                   /\ fr'[c].err = "unauthorized"
         /\ (SendError(c) /\ fr[c].from = "cursor" /\ fr[c].err = "unauthorized")
               => ErrorReplied(c)]_vars

\* C14: a frame whose discriminant is not subscribe, cursor or ping makes
\* ProcessMessage return the invalid-message-type error; the reader enqueues
\* exactly one error frame to the same connection, no other queue changes,
\* and the connection stays registered with its subscriptions unchanged.
C14_InvalidType ==
    [][\A c \in Conns :
         /\ InvalidMessageType(c) =>
               /\ send' = send
               /\ pc'[c] = "err_send"
               /\ fr'[c].err = "invalid"
         /\ (SendError(c) /\ fr[c].from = "other") => ErrorReplied(c)]_vars

\* C15: every malformed inbound frame, whether its envelope or its typed
\* payload fails to decode, is reported back to the sending peer as one
\* error frame: the reader goes on to its error reply.
C15_MalformedReported ==
    [][\A c \in Conns :
         /\ ReadMalformed(c) => pc'[c] = "err_send"
         /\ \A d \in Docs :
               HandleSubscribe(c, d, "decode") => pc'[c] = "err_send"]_vars

\* C16: when the access check returns an error during a subscribe or a
\* cursor dispatch, ProcessMessage returns that error, the index is
\* unchanged, no cursor frame is relayed and the connection remains in the
\* live set.
C16_AccessCheckError ==
    [][\A c \in Conns, d \in Docs :
         ( \/ HandleSubscribe(c, d, "error")
           \/ \E pu \in Users \cup {NoUser} : HandleCursor(c, d, pu, "error") ) =>
             /\ subscribers' = subscribers
             /\ clients' = clients
             /\ send' = send
             /\ pc'[c] = "err_send"
             /\ fr'[c].op = "error"
             /\ fr'[c].err = "internal"
             /\ fr'[c].lockop = "none"]_vars

\* The reader is about to report a failed access check of a cursor frame:
\* the sender is live and subscribed, and no queue holds a cursor frame.
C16_Witness ==
    \E c \in clients :
        /\ pc[c] = "err_send"
        /\ fr[c].err = "internal"
        /\ fr[c].from = "cursor"
        /\ c \in SubscribedIds
        /\ \A k \in Conns : \A i \in 1..Len(send[k]) : send[k][i].type # "cursor"

\* C17: the transport of every connection is closed exactly once over the
\* connection's life, in every interleaving of the exits of its two pumps:
\* Conn.Close() never runs a second time.
C17_TransportClosedOnce == \A c \in Conns : connClose[c] <= 1

\* C18: registry operations always complete and the registry lock is never
\* left held by an operation that has returned: with no goroutine inside a
\* read section nobody holds the lock for reading, and with none inside or
\* waiting for a write section nobody holds or claims it for writing.
C18_LockNeverLeftHeld ==
    /\ (\A t \in Threads : pc[t] \notin {"runlock", "gc2"}) => rw.readers = 0
    /\ (\A t \in Threads : pc[t] \notin {"crit", "lockwait"}) =>
           rw.writer = NoThread

\* C19: at the upgrade endpoint a request with a missing token or a token
\* that ValidateToken rejects gets an unauthorized error response and never
\* reaches the upgrade: no HandleConnection call happens and no connection
\* is added to the live set; only a request with a valid token is upgraded
\* and then registered.
C19_UpgradeNeedsToken ==
    [][/\ \A c \in Conns, tok \in {"missing", "invalid"}, up \in BOOLEAN,
            u \in Users :
            HandleWebSocket(c, tok, up, u) =>
                /\ pc'[c] \in Rejections
                /\ UNCHANGED <<clients, userOf, fr, rw, wpc, send>>
       /\ \A c \in Conns :
            /\ pc'[c] \in Rejections \cup {"upgrade_failed"} =>
                  /\ c \notin clients'
                  /\ userOf'[c] = NoUser
                  /\ wpc'[c] = "none"
            /\ c \in clients' => userOf'[c] \in Users]_vars

\* A request with a missing token and one with a rejected token were turned
\* away, and a request with a valid token became a live connection.
C19_Witness ==
    \E c, k, l \in Conns :
        /\ pc[c] = "bad_request"
        /\ pc[k] = "unauthorized"
        /\ l \in clients
        /\ clients = {l}

\* C20: in every reachable state no document id of the subscription index
\* maps to an empty subscriber set: UnregisterClient and Unsubscribe delete
\* a document's entry as soon as its last subscriber is removed.
C20_NoEmptySubscriberSet ==
    \A d \in DOMAIN subscribers : subscribers[d] # {}

\* A connection was sent a frame as a subscriber of a document and then
\* left: it is out of the live set and the document has no entry any more.
C20_Witness ==
    \E c \in Conns :
        /\ c \notin clients
        /\ closed[c] = 1
        /\ \E i \in 1..Len(send[c]) :
              /\ send[c][i].type = "update"
              /\ send[c][i].doc \notin DOMAIN subscribers

\* The connections of the user named in the message of broadcast t, among
\* the subscribers of its snapshot.
OwnSubscribers(t) == {c \in fr[t].snap : userOf[c] = fr[t].msg.user}

\* C21: for a user with several simultaneous connections subscribed to D,
\* BroadcastDocumentUpdate by that user excludes exactly one connection id,
\* one of the user's live connections resolved at call time, so that the
\* user's other subscribed connections each receive the update frame; a
\* cursor broadcast whose user id is that user is enqueued to none of the
\* user's connections.
C21_ExclusionAsymmetry ==
    [][\A t \in Threads :
         /\ (BroadcastReturn(t) /\ fr[t].op = "update") =>
               /\ fr[t].sent = fr[t].snap \ {fr[t].excl}
               /\ (\E c \in clients : userOf[c] = fr[t].msg.user) =>
                     (fr[t].excl \in clients /\ userOf[fr[t].excl] = fr[t].msg.user)
               /\ OwnSubscribers(t) \ {fr[t].excl} \subseteq fr[t].sent
         /\ (BroadcastReturn(t) /\ fr[t].op = "cursor") =>
               /\ OwnSubscribers(t) \cap fr[t].sent = {}
               /\ fr[t].snap \ OwnSubscribers(t) \subseteq
                      fr[t].sent \cup fr[t].evicted]_vars

\* An update of a user with two subscribed connections is about to return:
\* one of them was skipped, the other was sent the frame.
C21_Witness ==
    \E w \in Workers :
        /\ pc[w] = "bcast"
        /\ fr[w].op = "update"
        /\ fr[w].todo = {}
        /\ \E A, B \in OwnSubscribers(w) :
              /\ A # B
              /\ fr[w].excl = A
              /\ B \in fr[w].sent
              /\ send[B] # <<>>

\* Connection c entered Closing: it was registered and left the live set.
Unregistered(c) == WasRegistered(c) /\ c \notin clients

\* C22: the per-connection lifecycle is one-way: once a connection has been
\* unregistered its id is never again in the live set, and it reaches Closed,
\* both pumps exited and the registry cleanup done, without passing through
\* Registered again.
C22_LifecycleOneWay ==
    \A c \in Conns :
        []((Unregistered(c) /\ ~crashed) =>
              ([](c \notin clients) /\ <>(TornDown(c) \/ crashed)))

\* C23: in every reachable state the number of frames held in the outbound
\* queue of any connection is at most the capacity of the queue, and an
\* enqueue attempted by a broadcast on a queue holding that many frames
\* never adds a frame.
C23_QueueBounded ==
    [][/\ \A c \in Conns : Len(send'[c]) <= QueueCap
       /\ \A t \in Threads, cl \in Conns :
            (/\ Len(send[cl]) = QueueCap
             /\ BroadcastToDocument(t, cl) \/ BroadcastCursorPosition(t, cl)) =>
                send' = send]_vars

\* A broadcast found the queue of a subscriber full, and the queue still
\* holds as many frames as it can.
C23_Witness ==
    \E t \in Threads :
        /\ pc[t] = "lock"
        /\ fr[t].lockop = "unregister"
        /\ fr[t].ret = "bcast"
        /\ fr[t].victim \in clients
        /\ Len(send[fr[t].victim]) = QueueCap

\* C24: the error reply of the reader is best-effort and never stalls the
\* reader: after a dispatch error on connection c, the reader pump eventually
\* either reads the next inbound frame or exits through teardown, even when
\* the outbound queue of c is full and its writer pump stopped draining it.
C24_ErrorReplyNeverStalls ==
    \A c \in Conns : [](pc[c] = "err_send" => <>(pc[c] # "err_send"))

\* C25: a transport write failure is terminal for the connection: after the
\* writer pump exits on a write error, of a data frame or of the liveness
\* probe, the connection is eventually removed from the live set and from
\* every subscriber set, and it is never written to again.
C25_WriteFailureTerminal ==
    /\ \A c \in Conns :
         [](wpc[c] = "exit" =>
               <>((c \notin clients /\ c \notin SubscribedIds) \/ crashed))
    /\ [][\A c \in Conns : wpc[c] = "exit" => written'[c] = written[c]]_vars

\* C26: when the queue of a connection is closed while it still holds
\* frames, the writer pump first writes every frame that was enqueued before
\* the close, in order, then sends one close frame and exits; it never sends
\* the close frame while frames remain unwritten.
C26_DrainBeforeClose ==
    [][\A c \in Conns :
         /\ WriterClosed(c) =>
               /\ send[c] = <<>>
               /\ ChanClosed(c)
               /\ wpc'[c] = "exit"
         /\ (ChanClosed(c) /\ WriterWrite(c, TRUE)) =>
               /\ written'[c] = Append(written[c], Head(send[c]))
               /\ wpc'[c] = "run"
         /\ \A i \in 1..Len(written'[c]) :
               written'[c][i] = CloseMessage =>
                   /\ i = Len(written'[c])
                   /\ send'[c] = <<>>
                   /\ closed'[c] >= 1]_vars

\* A queue was closed while full; its writer wrote the frames it held and
\* then the close frame.
C26_Witness ==
    \E c \in Conns :
        /\ closed[c] = 1
        /\ wpc[c] = "exit"
        /\ Len(written[c]) = QueueCap + 1
        /\ written[c][QueueCap + 1] = CloseMessage
        /\ \A i \in 1..QueueCap : written[c][i].type = "error"

OtherSetsUnchanged(d) ==
    /\ DOMAIN subscribers' \ {d} = DOMAIN subscribers \ {d}
    /\ \A e \in DOMAIN subscribers \ {d} : subscribers'[e] = subscribers[e]

\* C28: frame conditions of the registry.  RegisterClient changes only the
\* live set and leaves the subscription index and every queue unchanged;
\* Subscribe and Unsubscribe change only the subscriber set of the document
\* they name and leave the live set, the sets of the other documents and
\* every queue unchanged.
C28_FrameConditions ==
    [][\A t \in Threads :
         /\ RegisterClient(t) =>
               /\ subscribers' = subscribers
               /\ send' = send /\ closed' = closed
         /\ (Subscribe(t) \/ Unsubscribe(t)) =>
               /\ OtherSetsUnchanged(fr[t].doc)
               /\ clients' = clients
               /\ send' = send /\ closed' = closed]_vars

\* A connection that was sent a frame as a subscriber of d1 is still live
\* and no longer subscribed to d1, but still subscribed to d2: it was
\* unsubscribed from d1 alone.
C28_Witness ==
    \E c \in clients :
        /\ \E i \in 1..Len(send[c]) : send[c][i].doc = "d1"
        /\ c \notin GetSubscribersIn(subscribers, clients, "d1")
        /\ c \in GetSubscribersIn(subscribers, clients, "d2")

\* C29: Subscribe followed by Unsubscribe of the same (document, connection)
\* pair, when the pair was not subscribed before, restores the subscription
\* index exactly, a document entry created by the Subscribe being removed;
\* Unsubscribe of a pair that is not subscribed leaves the index unchanged.
C29_SubscribeUnsubscribe ==
    \A d \in Docs, c \in Conns :
        ~(d \in DOMAIN subscribers /\ c \in subscribers[d]) =>
            /\ UnsubscribeMap(SubscribeMap(subscribers, d, c), d, c) = subscribers
            /\ UnsubscribeMap(subscribers, d, c) = subscribers

\* A connection that was sent a frame as a subscriber of a document is
\* still live and the index is empty again: its subscription was undone.
C29_Witness ==
    \E c \in clients :
        /\ subscribers = <<>>
        /\ \E i \in 1..Len(send[c]) : send[c][i].type = "update"

\* C30: Subscribe is idempotent: subscribing the same connection to the same
\* document twice yields the same index as subscribing once, and a following
\* broadcast to that document enqueues exactly one copy of the message to
\* that connection.
C30_SubscribeIdempotent ==
    [][/\ \A d \in Docs, c \in Conns :
            SubscribeMap(SubscribeMap(subscribers, d, c), d, c) =
                SubscribeMap(subscribers, d, c)
       /\ \A t \in Threads :
            (/\ Subscribe(t)
             /\ fr[t].doc \in DOMAIN subscribers
             /\ fr[t].victim \in subscribers[fr[t].doc]) =>
                subscribers' = subscribers
       /\ \A t \in Threads, cl \in Conns :
            BroadcastToDocument(t, cl) =>
                /\ cl \notin fr[t].sent
                /\ (closed[cl] = 0 /\ Len(send[cl]) < QueueCap) =>
                      /\ send'[cl] = Append(send[cl], fr[t].msg)
                      /\ cl \in fr'[t].sent
                      /\ cl \notin fr'[t].todo]_vars

\* A connection already subscribed to a document is in the critical section
\* of a second Subscribe to it, and a broadcast to that document waits for
\* the lock.
C30_Witness ==
    \E c \in Conns, w \in Workers :
        /\ pc[c] = "crit"
        /\ fr[c].lockop = "subscribe"
        /\ c \in GetSubscribersIn(subscribers, clients, fr[c].doc)
        /\ pc[w] = "rlock"
        /\ fr[w].doc = fr[c].doc

\* Broadcast t may evict connection v: v is a subscriber of its snapshot
\* that it did not send to and that its exclusion does not cover.
Evictable(t, v) ==
    /\ v \in fr[t].snap
    /\ v \notin fr[t].sent
    /\ fr[t].op = "cursor" => userOf[v] # fr[t].msg.user
    /\ fr[t].op \in {"update", "direct"} => v # fr[t].excl

\* C31: a broadcast evicts only stalled subscribers of its own document.
\* BroadcastToDocument and BroadcastCursorPosition never unregister a
\* connection that is not subscribed to the document, nor a subscriber whose
\* queue had room at the enqueue attempt, nor the excluded connection or user.
C31_EvictsOnlyStalled ==
    [][\A t \in Threads :
         /\ GetSubscribers(t) =>
               \A v \in fr'[t].snap :
                   fr[t].doc \in DOMAIN subscribers /\ v \in subscribers[fr[t].doc]
         /\ \A cl \in Conns :
               (/\ BroadcastToDocument(t, cl) \/ BroadcastCursorPosition(t, cl)
                /\ fr'[t].lockop = "unregister") =>
                   /\ fr'[t].victim = cl
                   /\ Len(send[cl]) = QueueCap
                   /\ Evictable(t, cl)
         /\ (UnregisterClient(t) /\ fr[t].ret = "bcast") =>
               Evictable(t, fr[t].victim)]_vars

\* A broadcast evicted a subscriber while a connection outside its snapshot
\* stays in the live set.
C31_Witness ==
    \E t \in Threads, v \in Conns, k \in clients :
        /\ pc[t] = "bcast"
        /\ v \in fr[t].evicted
        /\ v \notin clients
        /\ k \notin fr[t].snap

\* The pair (d, c) is in the subscription index subs.
InIndex(subs, d, c) == d \in DOMAIN subs /\ c \in subs[d]

\* C32: subscriptions are only created by a granted access check.  Every pair
\* (document, connection) enters the subscription index by the Subscribe that
\* a subscribe dispatch of that connection called after CanUserAccess
\* returned true for the document; a dispatch whose check failed or denied
\* access calls no Subscribe, and no other operation adds pairs to the index.
C32_SubscribedByGrant ==
    [][\A c \in Conns :
         /\ \A d \in Docs :
               /\ (~InIndex(subscribers, d, c) /\ InIndex(subscribers', d, c)) =>
                     /\ Subscribe(c)
                     /\ fr[c].op = "subscribe"
                     /\ fr[c].doc = d
                     /\ fr[c].victim = c
               /\ \A res \in Outcomes \ {"allow"} :
                     HandleSubscribe(c, d, res) =>
                         /\ fr'[c].lockop # "subscribe"
                         /\ pc'[c] = "err_send"
         /\ (fr[c].lockop # "subscribe" /\ fr'[c].lockop = "subscribe") =>
               \E d \in Docs :
                   /\ HandleSubscribe(c, d, "allow")
                   /\ fr'[c].doc = d
                   /\ fr'[c].victim = c
       /\ \A w \in Workers : fr'[w].lockop # "subscribe"]_vars

\* A connection was granted d1 and refused another subscribe, a second
\* connection was refused and is subscribed to nothing.
C32_Witness ==
    \E c, k \in clients :
        /\ c # k
        /\ InIndex(subscribers, "d1", c)
        /\ ~InIndex(subscribers, "d2", c)
        /\ \E i \in 1..Len(send[c]) : send[c][i].type = "error"
        /\ k \notin SubscribedIds
        /\ \E i \in 1..Len(send[k]) : send[k][i].type = "error"

\* C33: document traffic reaches subscribers only.  An update or cursor frame
\* for document D is enqueued only to connections that were in the subscriber
\* set of D when the broadcast took its snapshot; every other frame a
\* connection is sent is a pong or an error frame of its own reader's, so a
\* connection that never subscribed to D receives only those.
C33_TrafficToSubscribersOnly ==
    [][/\ \A t \in Threads :
            GetSubscribers(t) =>
                \A v \in fr'[t].snap : InIndex(subscribers, fr[t].doc, v)
       /\ \A cl \in Conns :
            send'[cl] # send[cl] /\ Len(send'[cl]) > Len(send[cl]) =>
                LET m == send'[cl][Len(send'[cl])] IN
                \/ /\ m.type \in {"pong", "error"}
                   /\ SendError(cl) \/ SendPong(cl)
                \/ /\ m.type \in {"update", "cursor"}
                   /\ \E t \in Threads :
                         /\ BroadcastToDocument(t, cl) \/ BroadcastCursorPosition(t, cl)
                         /\ cl \in fr[t].snap
                         /\ m.doc = fr[t].doc]_vars

\* A subscriber of a document holds a frame of that document while a
\* connection subscribed to nothing holds only the pong of its own ping.
C33_Witness ==
    \E c, k \in clients :
        /\ \E i \in 1..Len(send[c]) :
              /\ send[c][i].type \in {"update", "cursor"}
              /\ InIndex(subscribers, send[c][i].doc, c)
        /\ k \notin SubscribedIds
        /\ send[k] # <<>>
        /\ \A i \in 1..Len(send[k]) : send[k][i].type = "pong"

\* Goroutine t is inside the critical section of a mutating operation of the
\* registry, or of GetSubscribers or GetClients.
InWrite(t) == pc[t] = "crit"

InRead(t) == pc[t] \in {"runlock", "gc2"}

\* C34: registry lock discipline.  While a mutating operation of the registry
\* (RegisterClient, UnregisterClient, Subscribe, Unsubscribe) is inside its
\* critical section no other operation of the registry, reader or writer, is
\* inside one; the read operations overlap only with each other.
C34_LockDiscipline ==
    \A t, u \in Threads :
        (t # u /\ InWrite(t)) => (~InWrite(u) /\ ~InRead(u))

\* A writer is inside its critical section while a second writer and a
\* reader wait for the lock.
C34_Witness ==
    \E t, u, v \in Threads :
        /\ InWrite(t)
        /\ pc[u] = "lock"
        /\ pc[v] \in {"rlock", "gc1"}

====
